---- MODULE Spec2Model ----
(***************************************************************************)
(* temporal_degree_centrality (overtime/algorithms/centrality/degree.py)   *)
(* as a state machine: one call is run statement by statement over a       *)
(* temporal graph, a caller-supplied label list, an interval tuple and the *)
(* normalize flag.  The TemporalGraph collaborator (nodes, edges,          *)
(* get_temporal_subgraph, start/end) is modelled from its contract.        *)
(***************************************************************************)
EXTENDS Integers, Sequences, FiniteSets, TLC

\* ---------------------------------------------------------------- bounds
MaxNodes == 3       \* a graph has at most this many nodes
MaxEdges == 2       \* ... and at most this many (time-stamped) edges
MaxTime == 2        \* edge timestamps are 1..MaxTime
MaxLabels == 2      \* length of a caller-supplied labels list
MaxIntervals == 1   \* length of a caller-supplied intervals tuple
MaxCalls == 2       \* the caller repeats the call this many times

LabelPool == <<"A", "B", "C", "D", "E">>

RECURSIVE SeqsUpTo(_, _)
SeqsUpTo(S, n) ==
    IF n = 0 THEN {<<>>}
    ELSE LET shorter == SeqsUpTo(S, n - 1)
         IN  shorter \cup {Append(s, x) : s \in {t \in shorter : Len(t) = n - 1}, x \in S}

\* ------------------------------------------------- inputs of one call
\* An optional argument: None is [given |-> FALSE]; a list or tuple is
\* [given |-> TRUE, val |-> <<...>>].
None == [given |-> FALSE, val |-> <<>>]
Some(v) == [given |-> TRUE, val |-> v]

\* Python truthiness of an optional list/tuple argument: None, [] and ()
\* are all falsy ("if intervals:", "if not labels:").
Truthy(arg) == arg.given /\ Len(arg.val) > 0

NodesOf(n) == [k \in 1..n |-> LabelPool[k]]

\* Undirected edges: an edge is stored once, endpoints in label order
\* (self-loops included).
EdgesOver(n) ==
    {[node1 |-> LabelPool[p[1]], node2 |-> LabelPool[p[2]], time |-> t] :
        p \in {q \in (1..n) \X (1..n) : q[1] <= q[2]}, t \in 1..MaxTime}

\* Every edge's endpoints exist in nodes.
Graphs ==
    UNION {{[nodes |-> NodesOf(n), edges |-> es] : es \in SeqsUpTo(EdgesOver(n), MaxEdges)} :
            n \in 0..MaxNodes}

LabelArgs ==
    {None} \cup {Some(l) : l \in SeqsUpTo({LabelPool[k] : k \in 1..MaxNodes}, MaxLabels)}

Windows == {w \in (0..(MaxTime + 1)) \X (0..(MaxTime + 1)) : w[1] < w[2]}

IntervalArgs == {None} \cup {Some(iv) : iv \in SeqsUpTo(Windows, MaxIntervals)}

\* ------------------------------------------- TemporalGraph collaborator
nodes_labels(g) == g.nodes
nodes_count(g) == Len(g.nodes)
edges_aslist(g) == g.edges

EdgeTimes(g) == {g.edges[k].time : k \in 1..Len(g.edges)}

\* Minimum / maximum timestamp across the current edges; an empty edge set
\* has duration zero.
edges_start(g) ==
    IF g.edges = <<>> THEN 0
    ELSE CHOOSE t \in EdgeTimes(g) : \A u \in EdgeTimes(g) : t <= u
edges_end(g) ==
    IF g.edges = <<>> THEN 0
    ELSE CHOOSE t \in EdgeTimes(g) : \A u \in EdgeTimes(g) : t >= u

InWindows(t, intervals) ==
    \E k \in 1..Len(intervals) : intervals[k][1] <= t /\ t < intervals[k][2]

IsEndpoint(lbl, es) ==
    \E k \in 1..Len(es) : es[k].node1 = lbl \/ es[k].node2 = lbl

\* A NEW graph restricted to the union of the windows: edges outside every
\* window are dropped.  Whether nodes left without an edge stay in the
\* subgraph is the collaborator's policy (keeps).
get_temporal_subgraph(g, intervals, keeps) ==
    LET Retained(e) == InWindows(e.time, intervals)
        es == SelectSeq(g.edges, Retained)
        Stays(lbl) == keeps \/ IsEndpoint(lbl, es)
    IN  [nodes |-> SelectSeq(g.nodes, Stays), edges |-> es]

\* ------------------------------------------------ dict / float helpers
\* A dict is the sequence of its items in insertion order.
HasKey(d, lbl) == \E k \in 1..Len(d) : d[k].label = lbl
Keys(d) == {d[k].label : k \in 1..Len(d)}

\* {label: 0 for label in labels}: a repeated label keeps its first position.
RECURSIVE ZeroDict(_, _)
ZeroDict(ls, n) ==
    IF n = 0 THEN <<>>
    ELSE LET d == ZeroDict(ls, n - 1)
         IN  IF HasKey(d, ls[n]) THEN d
             ELSE Append(d, [label |-> ls[n], value |-> 0])

\* node_count[lbl] += 1 on a present key.
Increment(d, lbl) ==
    [k \in 1..Len(d) |->
        IF d[k].label = lbl THEN [label |-> lbl, value |-> d[k].value + 1] ELSE d[k]]

\* value / normalization_factor is kept as the exact quotient num/den.
Sgn(x) == IF x < 0 THEN 0 - 1 ELSE 1
Less(a, b) ==
    LET s == Sgn(a.den) * Sgn(b.den)
    IN  a.num * b.den * s < b.num * a.den * s
SameValue(a, b) == ~Less(a, b) /\ ~Less(b, a)

\* sorted(items, key=value, reverse=True) is stable: an item goes after
\* every item whose value is greater than OR EQUAL to its own.
InsertDescTiesFirst(sorted, x) ==
    LET k == Cardinality({j \in 1..Len(sorted) : Less(x.value, sorted[j].value)})
    IN  SubSeq(sorted, 1, k) \o <<x>> \o SubSeq(sorted, k + 1, Len(sorted))

InsertDesc(sorted, x) ==
    LET k == Cardinality({j \in 1..Len(sorted) : ~Less(sorted[j].value, x.value)})
    IN  SubSeq(sorted, 1, k) \o <<x>> \o SubSeq(sorted, k + 1, Len(sorted))

RECURSIVE SortedDesc(_, _)
SortedDesc(items, n) ==
    IF n = 0 THEN <<>> ELSE InsertDesc(SortedDesc(items, n - 1), items[n])

\* ------------------------------------------------------------- state
VARIABLES
    argGraph,         \* the caller's graph object
    argLabels,        \* the caller's labels argument
    argIntervals,     \* the caller's intervals argument
    normalize,        \* the normalize argument
    keepsNodes,       \* collaborator policy: subgraph keeps edge-less nodes
    graph,            \* local: graph (rebound by the restriction)
    labels,           \* local: labels (rebound by the default)
    node_count,       \* local dict
    i,                \* position of the for loop in graph.edges.aslist()
    temporal_degree,  \* local dict, unbound until line 71 runs
    outcome,          \* how the call ended
    prevOutcome,      \* how the previous call with these arguments ended
    calls,            \* calls started so far
    pc

vars == <<argGraph, argLabels, argIntervals, normalize, keepsNodes, graph, labels,
          node_count, i, temporal_degree, outcome, prevOutcome, calls, pc>>

args == <<argGraph, argLabels, argIntervals, normalize, keepsNodes>>

Unbound == [bound |-> FALSE, items |-> <<>>]
NoOutcome == [kind |-> "none", items |-> <<>>]
Raise(err) == [kind |-> err, items |-> <<>>]

Init ==
    /\ argGraph \in Graphs
    /\ argLabels \in LabelArgs
    /\ argIntervals \in IntervalArgs
    /\ normalize \in BOOLEAN
    /\ keepsNodes \in BOOLEAN
    /\ graph = argGraph
    /\ labels = argLabels
    /\ node_count = <<>>
    /\ i = 0
    /\ temporal_degree = Unbound
    /\ outcome = NoOutcome
    /\ prevOutcome = NoOutcome
    /\ calls = 1
    /\ pc = "restrict"

\* ----------------------------------------------------------- actions
\* lines 52-53, with the caller's graph object rewritten in place
RestrictInPlace ==
    /\ pc = "restrict"
    /\ graph' = IF Truthy(argIntervals)
                THEN get_temporal_subgraph(graph, argIntervals.val, keepsNodes)
                ELSE graph
    /\ argGraph' = graph'
    /\ pc' = "labels"
    /\ UNCHANGED <<argLabels, argIntervals, normalize, keepsNodes, labels, node_count, i,
                   temporal_degree, outcome, prevOutcome, calls>>

\* lines 52-53
Restrict ==
    /\ pc = "restrict"
    /\ graph' = IF Truthy(argIntervals)
                THEN get_temporal_subgraph(graph, argIntervals.val, keepsNodes)
                ELSE graph
    /\ pc' = "labels"
    /\ UNCHANGED <<args, labels, node_count, i, temporal_degree, outcome, prevOutcome, calls>>

\* lines 56-57, testing "labels is None" instead of "not labels"
ChooseLabelsIfNone ==
    /\ pc = "labels"
    /\ labels' = IF ~labels.given THEN Some(nodes_labels(graph)) ELSE labels
    /\ pc' = "init"
    /\ UNCHANGED <<args, graph, node_count, i, temporal_degree, outcome, prevOutcome, calls>>

\* lines 56-57
ChooseLabels ==
    /\ pc = "labels"
    /\ labels' = IF ~Truthy(labels) THEN Some(nodes_labels(graph)) ELSE labels
    /\ pc' = "init"
    /\ UNCHANGED <<args, graph, node_count, i, temporal_degree, outcome, prevOutcome, calls>>

AfterEdge(k) == IF k > Len(edges_aslist(graph)) THEN "normalize" ELSE "loop"

\* line 60
InitCount ==
    /\ pc = "init"
    /\ node_count' = ZeroDict(labels.val, Len(labels.val))
    /\ i' = 1
    /\ pc' = AfterEdge(1)
    /\ UNCHANGED <<args, graph, labels, temporal_degree, outcome, prevOutcome, calls>>

\* lines 63-66 with node1 counted twice and node2 never
LoopStepNode1Twice ==
    /\ pc = "loop"
    /\ LET edge == edges_aslist(graph)[i]
       IN  IF ~HasKey(node_count, edge.node1)
           THEN /\ outcome' = Raise("KeyError")
                /\ pc' = "done"
                /\ UNCHANGED <<node_count, i>>
           ELSE /\ node_count' = Increment(Increment(node_count, edge.node1), edge.node1)
                /\ i' = i + 1
                /\ pc' = AfterEdge(i + 1)
                /\ UNCHANGED outcome
    /\ UNCHANGED <<args, graph, labels, temporal_degree, prevOutcome, calls>>

\* lines 63-66 with the node2 line forgotten
LoopStepNode1Only ==
    /\ pc = "loop"
    /\ LET edge == edges_aslist(graph)[i]
       IN  IF ~HasKey(node_count, edge.node1)
           THEN /\ outcome' = Raise("KeyError")
                /\ pc' = "done"
                /\ UNCHANGED <<node_count, i>>
           ELSE /\ node_count' = Increment(node_count, edge.node1)
                /\ i' = i + 1
                /\ pc' = AfterEdge(i + 1)
                /\ UNCHANGED outcome
    /\ UNCHANGED <<args, graph, labels, temporal_degree, prevOutcome, calls>>

\* lines 63-66: one iteration of the loop.  Indexing the dict with a label
\* it does not hold raises KeyError, which ends the call.
LoopStep ==
    /\ pc = "loop"
    /\ LET edge == edges_aslist(graph)[i]
           after1 == Increment(node_count, edge.node1)
       IN  IF ~HasKey(node_count, edge.node1)
           THEN /\ outcome' = Raise("KeyError")
                /\ pc' = "done"
                /\ UNCHANGED <<node_count, i>>
           ELSE IF ~HasKey(after1, edge.node2)
           THEN /\ node_count' = after1
                /\ outcome' = Raise("KeyError")
                /\ pc' = "done"
                /\ UNCHANGED i
           ELSE /\ node_count' = Increment(after1, edge.node2)
                /\ i' = i + 1
                /\ pc' = AfterEdge(i + 1)
                /\ UNCHANGED outcome
    /\ UNCHANGED <<args, graph, labels, temporal_degree, prevOutcome, calls>>

normalization_factor(g) == (nodes_count(g) - 1) * (edges_end(g) - edges_start(g))

\* lines 69-71 dividing by the number of scored labels instead of the
\* graph's node count
NormalizeByLabelCount ==
    /\ pc = "normalize"
    /\ LET factor == (Len(node_count) - 1) * (edges_end(graph) - edges_start(graph))
       IN  IF normalize /\ node_count # <<>> /\ factor = 0
           THEN /\ outcome' = Raise("ZeroDivisionError")
                /\ pc' = "done"
                /\ UNCHANGED temporal_degree
           ELSE /\ temporal_degree' =
                      IF normalize
                      THEN [bound |-> TRUE,
                            items |-> [k \in 1..Len(node_count) |->
                                [label |-> node_count[k].label,
                                 value |-> [num |-> node_count[k].value, den |-> factor]]]]
                      ELSE temporal_degree
                /\ pc' = "sort"
                /\ UNCHANGED outcome
    /\ UNCHANGED <<args, graph, labels, node_count, i, prevOutcome, calls>>

\* lines 69-71.  The division runs once per item of node_count, so a zero
\* factor raises ZeroDivisionError only if there is an item to divide.
Normalize ==
    /\ pc = "normalize"
    /\ LET factor == normalization_factor(graph)
       IN  IF normalize /\ node_count # <<>> /\ factor = 0
           THEN /\ outcome' = Raise("ZeroDivisionError")
                /\ pc' = "done"
                /\ UNCHANGED temporal_degree
           ELSE /\ temporal_degree' =
                      IF normalize
                      THEN [bound |-> TRUE,
                            items |-> [k \in 1..Len(node_count) |->
                                [label |-> node_count[k].label,
                                 value |-> [num |-> node_count[k].value, den |-> factor]]]]
                      ELSE temporal_degree
                /\ pc' = "sort"
                /\ UNCHANGED outcome
    /\ UNCHANGED <<args, graph, labels, node_count, i, prevOutcome, calls>>

\* lines 74-78.  temporal_degree is assigned only under "if normalize:", so
\* reading it with normalize=False raises UnboundLocalError.
SortAndReturn ==
    /\ pc = "sort"
    /\ outcome' = IF temporal_degree.bound
                  THEN [kind |-> "return",
                        items |-> SortedDesc(temporal_degree.items, Len(temporal_degree.items))]
                  ELSE Raise("UnboundLocalError")
    /\ pc' = "done"
    /\ UNCHANGED <<args, graph, labels, node_count, i, temporal_degree, prevOutcome, calls>>

\* The caller calls again with the same argument objects: fresh locals.
CallAgain ==
    /\ pc = "done"
    /\ calls < MaxCalls
    /\ calls' = calls + 1
    /\ prevOutcome' = outcome
    /\ graph' = argGraph
    /\ labels' = argLabels
    /\ node_count' = <<>>
    /\ i' = 0
    /\ temporal_degree' = Unbound
    /\ outcome' = NoOutcome
    /\ pc' = "restrict"
    /\ UNCHANGED args

Next ==
    \/ Restrict
    \/ ChooseLabels
    \/ InitCount
    \/ LoopStep
    \/ Normalize
    \/ SortAndReturn
    \/ CallAgain

Spec == Init /\ [][Next]_vars

\* ------------------------------------------------ reference quantities
\* The graph that is scored, from the caller's arguments alone.
Restricted ==
    IF argIntervals.given /\ argIntervals.val # <<>>
    THEN get_temporal_subgraph(argGraph, argIntervals.val, keepsNodes)
    ELSE argGraph

\* The working label list, from the caller's arguments alone.
WorkingLabels ==
    IF argLabels.given /\ argLabels.val # <<>> THEN argLabels.val ELSE Restricted.nodes

\* Number of times lbl is an endpoint in the edge list es.
Occurrences(es, lbl) ==
    Cardinality({k \in 1..Len(es) : es[k].node1 = lbl})
        + Cardinality({k \in 1..Len(es) : es[k].node2 = lbl})

RECURSIVE SumValues(_, _)
SumValues(d, n) == IF n = 0 THEN 0 ELSE SumValues(d, n - 1) + d[n].value

FirstPos(ls, lbl) == CHOOSE k \in 1..Len(ls) : ls[k] = lbl /\ \A j \in 1..(k - 1) : ls[j] # lbl

Returned == pc = "done" /\ outcome.kind = "return"
LoopFinished == pc \in {"normalize", "sort"} \/ (pc = "done" /\ outcome.kind # "KeyError")
One == [num |-> 1, den |-> 1]

\* Every pair of distinct nodes has exactly one edge at every integer
\* timestamp of [start, end], end > start, and there is no other edge.
CompleteAtAllTimes(g) ==
    /\ nodes_count(g) >= 2
    /\ edges_end(g) > edges_start(g)
    /\ \A k \in 1..Len(g.edges) : g.edges[k].node1 # g.edges[k].node2
    /\ \A a \in 1..Len(g.nodes), b \in 1..Len(g.nodes), t \in edges_start(g)..edges_end(g) :
          a < b =>
            Cardinality({k \in 1..Len(g.edges) :
                /\ {g.edges[k].node1, g.edges[k].node2} = {g.nodes[a], g.nodes[b]}
                /\ g.edges[k].time = t}) = 1

\* ------------------------------------------------------------ claims
\* C1: with a caller-supplied non-empty labels list the call never raises
\* because of an edge endpoint that is not in labels (an untracked endpoint
\* is skipped, a tracked one is counted).
C1_UntrackedEndpointIgnored ==
    (argLabels.given /\ argLabels.val # <<>>) => outcome.kind # "KeyError"

\* C2: with normalize=False the call completes and returns the raw
\* endpoint counts of the working labels in descending order (stated for
\* the calls whose edge loop found every endpoint tracked; C1 is about
\* the others).
C2_RawCountsReturned ==
    (pc = "done" /\ ~normalize /\ outcome.kind # "KeyError") =>
        /\ outcome.kind = "return"
        /\ \A k \in 1..Len(outcome.items) :
              outcome.items[k].value =
                  Occurrences(Restricted.edges, outcome.items[k].label)
        /\ \A j, k \in 1..Len(outcome.items) :
              j < k => outcome.items[j].value >= outcome.items[k].value

\* C3: with normalize=True and a zero normalization factor the call ends
\* in an error raised to the caller; it returns no mapping.
C3_ZeroFactorRaises ==
    (pc = "done" /\ normalize /\ normalization_factor(Restricted) = 0) =>
        outcome.kind \in {"ZeroDivisionError", "KeyError"}

\* C4: the returned values are non-increasing in iteration order, and
\* labels with equal values keep the relative order they had in the
\* working label list.
C4_SortedStable ==
    Returned =>
        \A j, k \in 1..Len(outcome.items) :
            j < k =>
                /\ ~Less(outcome.items[j].value, outcome.items[k].value)
                /\ SameValue(outcome.items[j].value, outcome.items[k].value) =>
                      FirstPos(WorkingLabels, outcome.items[j].label)
                          < FirstPos(WorkingLabels, outcome.items[k].label)

\* a return where the sort moved an item and left a tie in place
C4_Witness ==
    /\ Returned
    /\ outcome.items # temporal_degree.items
    /\ \E j, k \in 1..Len(outcome.items) :
          /\ j < k
          /\ SameValue(outcome.items[j].value, outcome.items[k].value)
          /\ outcome.items[j].value.num > 0

\* C5: with labels omitted, after the loop has processed k edges the raw
\* counts sum to 2*k; at loop end they sum to twice the number of edges of
\* the (restricted) graph, self-loops included, and no lookup fails.
C5_Conservation ==
    ~(argLabels.given /\ argLabels.val # <<>>) =>
        /\ pc = "loop" => SumValues(node_count, Len(node_count)) = 2 * (i - 1)
        /\ pc \in {"normalize", "sort", "done"} =>
              SumValues(node_count, Len(node_count)) = 2 * Len(Restricted.edges)
        /\ outcome.kind # "KeyError"

\* the loop has finished over a restricted graph holding a self-loop and
\* another edge
C5_Witness ==
    /\ ~argLabels.given
    /\ argIntervals.given /\ argIntervals.val # <<>>
    /\ pc = "normalize"
    /\ Len(graph.edges) = 2
    /\ Len(argGraph.edges) = 2
    /\ \E k \in 1..2 : graph.edges[k].node1 = graph.edges[k].node2
    /\ \E k \in 1..2 : graph.edges[k].node1 # graph.edges[k].node2

C7_RestrictionMonotone ==
    LoopFinished =>
        \A k \in 1..Len(node_count) :
            IF argIntervals.given /\ argIntervals.val # <<>>
            THEN node_count[k].value <= Occurrences(argGraph.edges, node_count[k].label)
            ELSE node_count[k].value = Occurrences(argGraph.edges, node_count[k].label)

\* the restriction dropped one of a label's edges and kept another
C7_Witness ==
    /\ pc = "normalize"
    /\ argIntervals.given /\ argIntervals.val # <<>>
    /\ \E k \in 1..Len(node_count) :
          /\ node_count[k].value > 0
          /\ node_count[k].value < Occurrences(argGraph.edges, node_count[k].label)

\* C8: on a complete graph with an edge per pair at every integer
\* timestamp of [start, end], end > start, normalize=True gives every node
\* the same centrality, and that value is at most 1.0.
C8_CompleteGraphBound ==
    (Returned /\ normalize /\ CompleteAtAllTimes(Restricted)) =>
        \A j, k \in 1..Len(outcome.items) :
            /\ SameValue(outcome.items[j].value, outcome.items[k].value)
            /\ ~Less(One, outcome.items[k].value)

\* C9: no step of a call changes the caller's graph, labels or intervals,
\* and a repeated call with the same arguments ends the way the previous
\* one did.
C9_Pure ==
    /\ [][/\ argGraph' = argGraph
          /\ argLabels' = argLabels
          /\ argIntervals' = argIntervals]_vars
    /\ []((pc = "done" /\ calls > 1) => outcome = prevOutcome)

\* a second call returned after restricting to a strictly smaller graph
C9_Witness ==
    /\ Returned
    /\ calls > 1
    /\ graph # argGraph
    /\ Len(outcome.items) > 1

====
